---- MODULE Spec2Model ----
(***************************************************************************)
(* The LabelCamera component of sc-text-fe as a state machine.             *)
(*                                                                         *)
(* The repository holds several versions of the component.  Two of them    *)
(* are modelled here, selected by the variable `variant`:                  *)
(*   "freeze"  src/unnamed/part_001:1-225  (central crop, processing flag, *)
(*             freeze after capture, retake): specification Spec           *)
(*   "smooth"  src/src/components/LabelCamera.tsx:255-635  (edge locator,  *)
(*             exponentially smoothed frame, manual capture of the frame): *)
(*             specification SpecSmooth                                    *)
(*                                                                         *)
(* One JavaScript task (an event handler, an effect, the continuation of   *)
(* an await, an animation-frame callback) is one action.  React commits    *)
(* the state updates of a task before the next task runs, so the state     *)
(* variables hold the committed values.  A state setter called after the   *)
(* component was unmounted changes nothing.                                *)
(*                                                                         *)
(* Fractions of the frame (BoxNorm) are kept exactly, as integers in units *)
(* of 1/(W*SmoothScale) and 1/(H*SmoothScale); the code computes them in   *)
(* double precision.                                                       *)
(***************************************************************************)
EXTENDS Integers, Sequences, FiniteSets, TLC

\* ------------------------------------------------------------------ bounds
\* Boxes in an argument of dedupeBoxes.
MaxBoxes == 3
\* Items in an argument of dedupeBc.
MaxItems == 3
\* Photos taken on the Compare page (runs of the camera upload handlers).
MaxUploads == 2
\* Runs of doCompare.
MaxCompares == 1
\* Runs of the effects of one instance (the mount and the re-runs).
MaxRuns == 2
\* Frames one instance analyses.
MaxTicks == 3
\* Runs of handleCapture of one instance of the freeze version.
MaxCaptures == 2
\* Runs of handleCapture of one instance of the smooth version.
MaxSmoothCaptures == 1
\* Changes of the aspectRatio prop.
MaxArChanges == 1

\* ------------------------------------------------------- program constants
\* Analysis canvas (LabelCamera.tsx:352-353).
W == 320
H == 240

\* exportCroppedRegion (Compare.tsx:92-96): the doubles 0.92 and 0.6 in
\* units of 2^-53 and the double 0.08 in units of 2^-56 (eight times its
\* quotient plus its remainder), each as two limbs of 27 bits.
QStartHi == 61740154
QStartLo == 118111601
QFloorHi == 40265318
QFloorLo == 53687091
QStepHi == 5368709
QStepLo == 16106127
QStepRem == 3

\* handleCapture of the freeze version (part_001:96): the width of the
\* canvas the video frame is drawn to.
CAP_W == 1280

\* dedupeBoxes (Compare.tsx:190): the default threshold thr = 0.9, as the
\* fraction ThrNum / ThrDen.
ThrNum == 9
ThrDen == 10

\* ---------------------------------------------- constants of the design
\* spec.md section 8, property 8: warm-up of 3000 ms, frames 0..89 at 30 fps.
WarmupTicks == 90
\* spec.md section 4.3: minimum run length "10-45 frames".
MinRun == 10

VARIABLES
  variant,         \* which version of the component this instance is
  aspectRatio,     \* the aspectRatio prop, a fraction n/d with d > 0
  mounted,         \* the instance is mounted
  hasMediaDevices, \* navigator.mediaDevices.getUserMedia exists
  camRuns,         \* one record per run of the camera effect: its closure
  srcObject,       \* video.srcObject: 0, or the run whose stream is attached
  readyState,      \* of the video: 0 nothing, 1 metadata (size known), 2 data
  hasPermission,   \* useState
  errorMsg,        \* useState: "none", "unsupported", "failed"
  isProcessing,    \* useState (freeze)
  isFrozen,        \* useState (freeze)
  lastPreviewUrl,  \* useState (freeze): 0 is null, k the preview of capture k
  lastShotAt,      \* useState (freeze): 0 is null, k the time of capture k
  flash,           \* useState (freeze)
  flashTimers,     \* pending setTimeout(() => setFlash(false), 120)
  clicks,          \* history: runs of handleCapture (clicks on the capture button)
  nStarted,        \* captures that reached toBlob
  encoding,        \* captures whose toBlob has not called back yet
  blobbed,         \* captures whose toBlob returned a blob
  calls,           \* log of the onCapture invocations
  retakes,         \* executions of handleRetake
  smoothBox,       \* smoothBoxRef.current (smooth)
  box,             \* useState (smooth)
  isGood,          \* useState (smooth)
  ticks,           \* frames analysed so far
  goodRun,         \* history: consecutive analysed ticks that accepted a region
  missRun,         \* history: consecutive analysed ticks without a region
  dropped,         \* history: a tick rejected its candidate after an accepted one
  accepted,        \* the last analysed tick had a newBox (its local `good`)
  arFresh,         \* history: the prop changed and no tick has analysed since
  rafQueue,        \* runs of the analysis effect with a pending frame callback
  anaRun,          \* the current run of the analysis effect
  calc,            \* a computation outside the component: its inputs, its result
  page             \* the state of the Compare page, its uploads and its comparison

propVars == <<variant, aspectRatio>>
camVars  == <<hasMediaDevices, camRuns, srcObject, readyState, hasPermission, errorMsg>>
uiVars   == <<isProcessing, isFrozen, lastPreviewUrl, lastShotAt, flash, flashTimers>>
capVars  == <<clicks, nStarted, encoding, blobbed, calls, retakes>>
anaVars  == <<smoothBox, box, isGood, goodRun, missRun, dropped, accepted>>
loopVars == <<ticks, arFresh, rafQueue, anaRun>>
\* The variables of a LabelCamera instance.
componentVars == <<propVars, mounted, camVars, uiVars, capVars, anaVars, loopVars>>
vars == <<componentVars, calc, page>>

\* ------------------------------------------------------------------ helpers
Max(a, b) == IF a > b THEN a ELSE b
Min(a, b) == IF a < b THEN a ELSE b
Abs(a) == IF a < 0 THEN -a ELSE a

RECURSIVE Pow(_, _)
Pow(b, k) == IF k = 0 THEN 1 ELSE b * Pow(b, k - 1)

RECURSIVE GCD(_, _)
GCD(a, b) == IF b = 0 THEN a ELSE GCD(b, a % b)

\* floor(a / b) for b # 0
FloorDiv(a, b) == IF b > 0 THEN a \div b ELSE (-a) \div (-b)

\* Math.round(num / den): the nearest integer, a half rounded up
Round(num, den) == FloorDiv(2 * num + den, 2 * den)

\* A state setter of a component: without effect once it is unmounted.
SetState(old, new) == IF mounted THEN new ELSE old

\* The values of the aspectRatio prop that the component is run with: 1, 2
\* and the invalid value -1.
AspectRatios ==
  { [n |-> 1, d |-> 1], [n |-> 2, d |-> 1], [n |-> -1, d |-> 1] }

\* --------------------------------------------------------------- the camera
\* The closure of a run of the camera effect when its synchronous part has
\* run: `active`, `stream` and where the async function stands.
CameraEffectRun ==
  IF hasMediaDevices
    THEN [active |-> TRUE, stream |-> "none", pc |-> "getUserMedia"]
    ELSE [active |-> TRUE, stream |-> "none", pc |-> "unsupported"]

\* The cleanup of a run of the camera effect.
CameraCleanup(c) ==
  [c EXCEPT !.active = FALSE,
            !.stream = IF c.stream = "none" THEN "none" ELSE "stopped"]

CurrentRun == Len(camRuns)

\* A camera effect that does not look at its flag `active` after the await;
\* the properties of the streams rest on the difference to Active.
ActiveNotChecked(r) == TRUE

\* The flag `active` of run r, as the async function reads it after the await.
Active(r) == camRuns[r].active

\* getUserMedia resolves for run r: `if (!active)` stops the stream, otherwise
\* it is attached to the video and play() is awaited.
StreamArrives(r) ==
  /\ r \in 1..Len(camRuns)
  /\ camRuns[r].pc = "getUserMedia"
  /\ IF ~Active(r)
       THEN /\ camRuns' = [camRuns EXCEPT ![r].stream = "stopped", ![r].pc = "done"]
            /\ UNCHANGED <<srcObject, readyState>>
       ELSE /\ camRuns' = [camRuns EXCEPT ![r].stream = "live", ![r].pc = "play"]
            /\ srcObject' = r
            /\ readyState' = 0
  /\ UNCHANGED <<calc, page, propVars, mounted, hasMediaDevices, hasPermission, errorMsg,
                 uiVars, capVars, anaVars, loopVars>>

\* getUserMedia rejects for run r (permission denied, device busy): the catch.
StreamRefused(r) ==
  /\ r \in 1..Len(camRuns)
  /\ camRuns[r].pc = "getUserMedia"
  /\ camRuns' = [camRuns EXCEPT ![r].pc = "failed"]
  /\ errorMsg' = SetState(errorMsg, "failed")
  /\ UNCHANGED <<calc, page, propVars, mounted, hasMediaDevices, srcObject, readyState,
                 hasPermission, uiVars, capVars, anaVars, loopVars>>

\* v.play() settles for run r (a rejection is swallowed): setHasPermission(true).
PlaySettles(r) ==
  /\ r \in 1..Len(camRuns)
  /\ camRuns[r].pc = "play"
  /\ camRuns' = [camRuns EXCEPT ![r].pc = "done"]
  /\ hasPermission' = SetState(hasPermission, TRUE)
  /\ UNCHANGED <<calc, page, propVars, mounted, hasMediaDevices, srcObject, readyState,
                 errorMsg, uiVars, capVars, anaVars, loopVars>>

\* The video element decodes: metadata first (videoWidth, videoHeight), then
\* the first frame.
VideoProgress ==
  /\ srcObject # 0
  /\ camRuns[srcObject].stream = "live"
  /\ readyState < 2
  /\ readyState' = readyState + 1
  /\ UNCHANGED <<calc, page, propVars, mounted, hasMediaDevices, camRuns, srcObject,
                 hasPermission, errorMsg, uiVars, capVars, anaVars, loopVars>>

\* -------------------------------------------------------------- the locator
\* BoxNorm with x, w in units of 1/(W*SmoothScale) and y, h in units of
\* 1/(H*SmoothScale); `ok` is FALSE for null.
SmoothScale == Pow(25, MaxTicks)
NoBox == [ok |-> FALSE, x |-> 0, y |-> 0, w |-> 0, h |-> 0]

\* The extremes of the pixels above the edge threshold that the scan of
\* tick finds.  It scans x in borderX+1 .. W-borderX-1 and y likewise.
BorderX == (W * 8) \div 100
BorderY == (H * 8) \div 100
NoEdges == [minX |-> W, maxX |-> -1, minY |-> H, maxY |-> -1]
Edges(x1, x2, y1, y2) == [minX |-> x1, maxX |-> x2, minY |-> y1, maxY |-> y2]
\* What the scan can report: nothing, or extremes inside the scanned part.
InScan(e) ==
  \/ e = NoEdges
  \/ /\ BorderX < e.minX /\ e.minX <= e.maxX /\ e.maxX < W - BorderX
     /\ BorderY < e.minY /\ e.minY <= e.maxY /\ e.maxY < H - BorderY

\* The frames that are tried.
EdgeInputs ==
  { NoEdges,
    Edges(80, 240, 40, 200),    \* a centred square
    Edges(96, 192, 48, 168) }   \* x=0.3, y=0.2, w=0.3, h=0.5: too small

\* const targetAR = aspectRatio || 1
TargetAR(ar) == IF ar.n = 0 THEN [n |-> 1, d |-> 1] ELSE ar

\* A correction that widens a tall box to the right only; the symmetry of
\* the correction rests on the difference to Corrected.
CorrectedOneSided(e, ar) ==
  LET bw0 == e.maxX - e.minX
      bh0 == e.maxY - e.minY
      t == TargetAR(ar)
      wide == bw0 * t.d > t.n * bh0
      exH == bw0 * t.d - bh0 * t.n
      exW == bh0 * t.n - bw0 * t.d
  IN [minY |-> IF wide THEN Max(0, Round(2 * t.n * e.minY - exH, 2 * t.n)) ELSE e.minY,
      maxY |-> IF wide THEN Min(H - 1, Round(2 * t.n * e.maxY + exH, 2 * t.n)) ELSE e.maxY,
      minX |-> e.minX,
      maxX |-> IF wide THEN e.maxX ELSE Min(W - 1, Round(t.d * e.maxX + exW, t.d))]

\* The correction of a tick towards the target aspect ratio: a box that is
\* too wide grows in height, any other box grows in width, by half of the
\* missing extent on each side, rounded and clamped to the canvas.
Corrected(e, ar) ==
  LET bw0 == e.maxX - e.minX
      bh0 == e.maxY - e.minY
      t == TargetAR(ar)
      \* boxAR > targetAR
      wide == bw0 * t.d > t.n * bh0
      \* extra = bw/targetAR - bh, as the fraction exH / t.n
      exH == bw0 * t.d - bh0 * t.n
      \* extra = bh*targetAR - bw, as the fraction exW / t.d
      exW == bh0 * t.n - bw0 * t.d
  IN [minY |-> IF wide THEN Max(0, Round(2 * t.n * e.minY - exH, 2 * t.n)) ELSE e.minY,
      maxY |-> IF wide THEN Min(H - 1, Round(2 * t.n * e.maxY + exH, 2 * t.n)) ELSE e.maxY,
      minX |-> IF wide THEN e.minX ELSE Max(0, Round(2 * t.d * e.minX - exW, 2 * t.d)),
      maxX |-> IF wide THEN e.maxX ELSE Min(W - 1, Round(2 * t.d * e.maxX + exW, 2 * t.d))]

\* The candidate of a tick after the correction: the pixel extremes, and the
\* three checks.
Candidate(e, ar) ==
  LET bw0 == e.maxX - e.minX
      bh0 == e.maxY - e.minY
      t == TargetAR(ar)
      \* areaRel > 0.2 && areaRel < 0.7, on the box before the correction
      okArea == 5 * bw0 * bh0 > W * H /\ 10 * bw0 * bh0 < 7 * W * H
      c == Corrected(e, ar)
      minX == c.minX
      maxX == c.maxX
      minY == c.minY
      maxY == c.maxY
      bw == maxX - minX
      bh == maxY - minY
      \* centerDist < 0.25 with dx = a/(2W), dy = b/(2H)
      g == GCD(W, H)
      a == (minX + maxX - W) * (H \div g)
      b == (minY + maxY - H) * (W \div g)
      okCenter == 4 * (a * a + b * b) < ((W \div g) * H) * ((W \div g) * H)
      \* |boxAR - targetAR| / targetAR < 0.25; a negative targetAR makes the
      \* quotient negative (or -Infinity), which is below 0.25
      okRatio == IF t.n < 0 THEN TRUE ELSE 4 * Abs(bw * t.d - t.n * bh) < bh * t.n
  IN [minX |-> minX, minY |-> minY, bw |-> bw, bh |-> bh,
      okArea |-> okArea, okCenter |-> okCenter, okRatio |-> okRatio]

\* newBox of a tick: null unless edges were found and the corrected
\* candidate passes the three checks.
Locate(e, ar) ==
  IF ~(e.maxX > e.minX /\ e.maxY > e.minY) THEN NoBox
  ELSE LET c == Candidate(e, ar)
       IN IF c.okArea /\ c.okCenter /\ c.okRatio
            THEN [ok |-> TRUE, x |-> c.minX * SmoothScale, y |-> c.minY * SmoothScale,
                  w |-> c.bw * SmoothScale, h |-> c.bh * SmoothScale]
            ELSE NoBox

\* prev + (new - prev) * alpha with alpha = 0.28 = 7/25
Ema(p, n) == p + (7 * (n - p)) \div 25

\* A smoothing that drops the frame when a tick has no region (as the
\* version without smoothing does with setBox(null)); the hold of the frame
\* rests on the difference to Smooth.
SmoothClearing(prev, newBox) ==
  IF newBox.ok
    THEN IF ~prev.ok THEN newBox
         ELSE [ok |-> TRUE, x |-> Ema(prev.x, newBox.x), y |-> Ema(prev.y, newBox.y),
               w |-> Ema(prev.w, newBox.w), h |-> Ema(prev.h, newBox.h)]
    ELSE NoBox

\* The smoothing of tick: the first region is taken as it is, a later one is
\* averaged in, and without a new region the previous one is kept.
Smooth(prev, newBox) ==
  IF newBox.ok
    THEN IF ~prev.ok THEN newBox
         ELSE [ok |-> TRUE, x |-> Ema(prev.x, newBox.x), y |-> Ema(prev.y, newBox.y),
               w |-> Ema(prev.w, newBox.w), h |-> Ema(prev.h, newBox.h)]
    ELSE IF prev.ok
         THEN [ok |-> TRUE, x |-> prev.x, y |-> prev.y, w |-> prev.w, h |-> prev.h]
         ELSE NoBox

\* A readiness that follows the frame that is shown, also when it is only
\* held; the readiness of a rejected tick rests on the difference to
\* Readiness.
ReadinessOfShownFrame(smoothed, newBox) == smoothed.ok

\* setIsGood(!!smoothed && good): `good` is true only with a newBox of this
\* tick.
Readiness(smoothed, newBox) == smoothed.ok /\ newBox.ok

\* An animation-frame callback of run r of the analysis effect.  Until the
\* video has a frame it only schedules itself again; otherwise it analyses
\* the frame, whose edge extremes are e, and schedules itself again.
Tick(r, e) ==
  /\ variant = "smooth"
  /\ r \in rafQueue
  /\ ticks < MaxTicks
  /\ InScan(e)
  /\ IF readyState < 2
       THEN /\ e = NoEdges
            /\ UNCHANGED <<anaVars, arFresh, ticks>>
       ELSE LET newBox == Locate(e, aspectRatio)
                smoothed == Smooth(smoothBox, newBox)
            IN /\ smoothBox' = smoothed
               /\ box' = smoothed
               /\ isGood' = Readiness(smoothed, newBox)
               /\ accepted' = newBox.ok
               /\ goodRun' = IF newBox.ok THEN goodRun + 1 ELSE 0
               /\ missRun' = IF newBox.ok THEN 0 ELSE missRun + 1
               /\ dropped' = (dropped \/ (~newBox.ok /\ goodRun > 0))
               /\ arFresh' = FALSE
               /\ ticks' = ticks + 1
  /\ UNCHANGED <<calc, page, propVars, mounted, camVars, uiVars, capVars, rafQueue, anaRun>>

\* ------------------------------------------------------------- the lifecycle
\* An analysis effect whose cleanup does not cancel the pending frame; the
\* single loop of an instance rests on the difference to AnalysisEffectRerun.
AnalysisRerunWithoutCancel ==
  IF variant = "smooth"
    THEN /\ anaRun' = anaRun + 1
         /\ rafQueue' = rafQueue \cup {anaRun + 1}
    ELSE UNCHANGED <<anaRun, rafQueue>>

\* The analysis effect (deps [aspectRatio]) is cleaned up and runs again:
\* cancelAnimationFrame(rafId), then rafId = requestAnimationFrame(tick).
\* smoothBoxRef is not touched.  The freeze version has no such effect.
AnalysisEffectRerun ==
  IF variant = "smooth"
    THEN /\ anaRun' = anaRun + 1
         /\ rafQueue' = (rafQueue \ {anaRun}) \cup {anaRun + 1}
    ELSE UNCHANGED <<anaRun, rafQueue>>

\* React cleans the effects up and runs them again, keeping the state (the
\* simulated unmount and mount of StrictMode).
Remount ==
  /\ mounted
  /\ Len(camRuns) < MaxRuns
  /\ camRuns' = Append([camRuns EXCEPT ![CurrentRun] = CameraCleanup(@)], CameraEffectRun)
  /\ errorMsg' = IF hasMediaDevices THEN errorMsg ELSE "unsupported"
  /\ AnalysisEffectRerun
  /\ UNCHANGED <<calc, page, propVars, mounted, hasMediaDevices, srcObject, readyState,
                 hasPermission, uiVars, capVars, anaVars, ticks, arFresh>>

\* The instance is unmounted: the cleanups of both effects run.
Unmount ==
  /\ mounted
  /\ mounted' = FALSE
  /\ camRuns' = [camRuns EXCEPT ![CurrentRun] = CameraCleanup(@)]
  /\ rafQueue' = rafQueue \ {anaRun}
  /\ UNCHANGED <<calc, page, propVars, hasMediaDevices, srcObject, readyState, hasPermission,
                 errorMsg, uiVars, capVars, anaVars, ticks, arFresh, anaRun>>

\* The parent renders the component with another aspectRatio.
ChangeAspectRatio(ar) ==
  /\ mounted
  /\ ar \in AspectRatios \ {aspectRatio}
  /\ variant = "smooth" => anaRun - Len(camRuns) < MaxArChanges
  /\ aspectRatio' = ar
  /\ AnalysisEffectRerun
  /\ arFresh' = (variant = "smooth")
  /\ UNCHANGED <<calc, page, variant, mounted, camVars, uiVars, capVars, anaVars, ticks>>

\* --------------------------------------------------------------- the capture
\* A button that is never disabled; the exclusion of captures rests on the
\* difference to ButtonDisabled.
ButtonNeverDisabled == FALSE

\* The button: disabled={isProcessing} (freeze), disabled={!smoothBoxRef.current}
\* (smooth).
ButtonDisabled == IF variant = "freeze" THEN isProcessing ELSE ~smoothBox.ok

\* A button that always shows the capture handler; the frozen state rests on
\* the difference to ButtonOnClick.
ButtonAlwaysCaptures == "handleCapture"

\* buttonOnClick = isFrozen ? handleRetake : handleCapture (freeze); the smooth
\* version has onClick={handleCapture}.
ButtonOnClick ==
  IF variant = "freeze" /\ isFrozen THEN "handleRetake" ELSE "handleCapture"

\* A handleCapture that does not look at the size of the video; the capture
\* without a frame rests on the difference to VideoHasNoSize.
SizeNotChecked == FALSE

\* !video.videoWidth || !video.videoHeight: the video has no metadata yet.
VideoHasNoSize == readyState = 0

\* A return out of the try block that skips the finally block; the end of
\* the processing state rests on the difference to ProcessingAfterReturn.
ProcessingSetAtReturn == SetState(isProcessing, TRUE)

\* setIsProcessing(true), `if (!ctx) return` inside the try block, and the
\* finally block with setIsProcessing(false), all in one task.
ProcessingAfterReturn == SetState(isProcessing, FALSE)

\* The synchronous part of handleCapture, up to the call of toBlob.  It
\* returns without a trace when the video has no size and when there is no
\* region (smooth); when a canvas gives no 2d context (ctxOk) it returns
\* from inside the try block (freeze).
HandleCapture(ctxOk) ==
  /\ clicks' = clicks + 1
  /\ IF VideoHasNoSize \/ (variant = "smooth" /\ ~smoothBox.ok)
       THEN UNCHANGED <<uiVars, nStarted, encoding, blobbed, calls, retakes>>
       ELSE IF ~ctxOk
       THEN /\ isProcessing' = IF variant = "freeze" THEN ProcessingAfterReturn
                                                      ELSE isProcessing
            /\ UNCHANGED <<isFrozen, lastPreviewUrl, lastShotAt, flash, flashTimers,
                           nStarted, encoding, blobbed, calls, retakes>>
       ELSE /\ nStarted' = nStarted + 1
            /\ encoding' = encoding \cup {nStarted + 1}
            /\ isProcessing' = IF variant = "freeze" THEN TRUE ELSE isProcessing
            /\ UNCHANGED <<isFrozen, lastPreviewUrl, lastShotAt, flash, flashTimers,
                           blobbed, calls, retakes>>

\* A retake that leaves the preview in place; the clean state after a retake
\* rests on the difference to HandleRetake.
HandleRetakeKeepsPreview ==
  /\ isFrozen' = FALSE
  /\ lastShotAt' = 0
  /\ retakes' = retakes + 1
  /\ UNCHANGED <<lastPreviewUrl, isProcessing, flash, flashTimers, clicks, nStarted,
                 encoding, blobbed, calls>>

\* handleRetake
HandleRetake ==
  /\ isFrozen' = FALSE
  /\ lastPreviewUrl' = 0
  /\ lastShotAt' = 0
  /\ retakes' = retakes + 1
  /\ UNCHANGED <<isProcessing, flash, flashTimers, clicks, nStarted, encoding, blobbed,
                 calls>>

\* A click on the button while it shows the capture handler.
ClickCapture(ctxOk) ==
  /\ mounted
  /\ ~ButtonDisabled
  /\ ButtonOnClick = "handleCapture"
  /\ clicks < (IF variant = "freeze" THEN MaxCaptures ELSE MaxSmoothCaptures)
  /\ HandleCapture(ctxOk)
  /\ UNCHANGED <<calc, page, propVars, mounted, camVars, anaVars, loopVars>>

\* A click on the button while it shows the retake handler.
ClickRetake ==
  /\ mounted
  /\ ~ButtonDisabled
  /\ ButtonOnClick = "handleRetake"
  /\ HandleRetake
  /\ UNCHANGED <<calc, page, propVars, mounted, camVars, anaVars, loopVars>>

\* A handleCapture that goes on without a blob; the pairing of onCapture with
\* the successful captures rests on the difference to OnCaptureCalls.
OnCaptureCallsWithoutBlob(k, blob) == <<[id |-> k, live |-> mounted]>>

\* The invocations of onCapture by capture k: `if (!blob) return`, then one
\* call.  `live` records whether the component was still mounted.
OnCaptureCalls(k, blob) ==
  IF blob THEN <<[id |-> k, live |-> mounted]>> ELSE <<>>

\* A handleCapture without the finally block; the return to the state before
\* the capture rests on the difference to ProcessingAfterCapture.
ProcessingLeftSet == isProcessing

\* finally { setIsProcessing(false) }
ProcessingAfterCapture == SetState(isProcessing, FALSE)

\* The rest of handleCapture for capture k, run when toBlob calls back: with
\* or without a blob, and with an onCapture that returns or throws.
EncodeDone(k, blob, throws) ==
  /\ k \in encoding
  /\ throws => blob
  /\ encoding' = encoding \ {k}
  /\ calls' = calls \o OnCaptureCalls(k, blob)
  /\ IF ~blob
       THEN UNCHANGED <<blobbed, isFrozen, lastPreviewUrl, lastShotAt, flash,
                        flashTimers>>
       ELSE /\ blobbed' = blobbed \cup {k}
            /\ IF variant = "freeze" /\ ~throws
                 THEN /\ lastPreviewUrl' = SetState(lastPreviewUrl, k)
                      /\ isFrozen' = SetState(isFrozen, TRUE)
                      /\ lastShotAt' = SetState(lastShotAt, k)
                      /\ flash' = SetState(flash, TRUE)
                      /\ flashTimers' = flashTimers + 1
                 ELSE UNCHANGED <<isFrozen, lastPreviewUrl, lastShotAt, flash,
                                  flashTimers>>
  /\ isProcessing' = IF variant = "freeze" THEN ProcessingAfterCapture ELSE isProcessing
  /\ UNCHANGED <<clicks, nStarted, retakes, calc, page, propVars, mounted, camVars, anaVars, loopVars>>

\* A timer that fires without switching the flash off; the end of the flash
\* rests on the difference to FlashTimeout.
FlashTimeoutKeepsFlash ==
  /\ flashTimers > 0
  /\ flashTimers' = flashTimers - 1
  /\ UNCHANGED <<flash, isProcessing, isFrozen, lastPreviewUrl, lastShotAt, capVars,
                 calc, page, propVars, mounted, camVars, anaVars, loopVars>>

\* setTimeout(() => setFlash(false), 120) fires.
FlashTimeout ==
  /\ flashTimers > 0
  /\ flashTimers' = flashTimers - 1
  /\ flash' = SetState(flash, FALSE)
  /\ UNCHANGED <<isProcessing, isFrozen, lastPreviewUrl, lastShotAt, capVars,
                 calc, page, propVars, mounted, camVars, anaVars, loopVars>>

\* ------------------------------------------------- the size of the artifact
One == [n |-> 1, d |-> 1]

\* const targetAR = aspectRatio > 0 ? aspectRatio : 1 (freeze, handleCapture)
CaptureTargetAR(ar) == IF ar.n > 0 THEN ar ELSE One

\* The output canvas of the freeze version: outW = 1000,
\* outH = Math.round(outW / targetAR).
FreezeOutput(ar) ==
  LET t == CaptureTargetAR(ar)
  IN [ok |-> TRUE, w |-> 1000, h |-> Round(1000 * t.d, t.n)]

\* Math.round(u / full * v) for a fraction u / full of a frame of v pixels.
RoundScaled(u, full, v) ==
  LET g == GCD(Abs(u), full)
  IN Round((u \div g) * v, full \div g)

\* The output canvas of the smooth version for the region b and a video of
\* vw x vh pixels: Math.max(1, Math.round(b.w * vw)) and the same for h;
\* without a region handleCapture returns.
SmoothOutput(b, vw, vh) ==
  IF ~b.ok THEN [ok |-> FALSE, w |-> 0, h |-> 0]
  ELSE [ok |-> TRUE,
        w |-> Max(1, RoundScaled(b.w, W * SmoothScale, vw)),
        h |-> Max(1, RoundScaled(b.h, H * SmoothScale, vh))]

\* ------------------------------------------------------- the central crop
\* The canvas of handleCapture for a video of vw x vh pixels: CAP_W wide and
\* CAP_H = Math.round((vh / vw) * CAP_W) high.
CapFrame(vw, vh) == [w |-> CAP_W, h |-> Round(vh * CAP_W, vw)]

\* A central crop that is not limited by the height of the frame; the place
\* of the crop in the frame rests on the difference to CentralCrop.
CentralCropUnclamped(fw, fh, t) ==
  LET den == 20 * t.n * t.d
      sw == 14 * fw * t.n * t.d
      sh == 14 * fw * t.d * t.d
  IN [den |-> den, sw |-> sw, sh |-> sh,
      sx |-> (fw * den - sw) \div 2, sy |-> (fh * den - sh) \div 2]

\* centralCrop(W, H, targetAR) for a frame of fw x fh pixels and the target
\* t = n/d > 0: the rectangle sx, sy, sw, sh, kept exactly in units of
\* 1/den pixels with den = 20*n*d (the code computes it in double
\* precision).  sw = W * 0.7 and sh = sw / targetAR; if sh > H * 0.7 then
\* sh = H * 0.7 and sw = sh * targetAR; sx = (W - sw) / 2, sy = (H - sh) / 2.
CentralCrop(fw, fh, t) ==
  LET den == 20 * t.n * t.d
      sw0 == 14 * fw * t.n * t.d
      sh0 == 14 * fw * t.d * t.d
      high == sh0 > 14 * fh * t.n * t.d
      sh == IF high THEN 14 * fh * t.n * t.d ELSE sh0
      sw == IF high THEN 14 * fh * t.n * t.n ELSE sw0
  IN [den |-> den, sw |-> sw, sh |-> sh,
      sx |-> (fw * den - sw) \div 2, sy |-> (fh * den - sh) \div 2]

\* ------------------------------------------------------- the quality of JPEG
\* A double of [0.5, 1) in units of 2^-53, as two limbs of 27 bits.
Limb == Pow(2, 27)
QStart == [hi |-> QStartHi, lo |-> QStartLo]
QFloor == [hi |-> QFloorHi, lo |-> QFloorLo]
QStepQuot == [hi |-> QStepHi, lo |-> QStepLo]

LimbSub(a, b) ==
  IF a.lo >= b.lo THEN [hi |-> a.hi - b.hi, lo |-> a.lo - b.lo]
  ELSE [hi |-> a.hi - b.hi - 1, lo |-> a.lo + Limb - b.lo]

LimbGt(a, b) == a.hi > b.hi \/ (a.hi = b.hi /\ a.lo > b.lo)

\* q -= 0.08 in double precision, for a result in [0.5, 1): the exact
\* difference is d - QStepRem/8 units, rounded to the nearest unit, a tie to
\* the even one.
QualityStep(q) ==
  LET d == LimbSub(q, QStepQuot)
  IN IF QStepRem > 4 \/ (QStepRem = 4 /\ d.lo % 2 = 1)
       THEN LimbSub(d, [hi |-> 0, lo |-> 1])
       ELSE d

\* ------------------------------------------------------------- dedupeBoxes
\* The intersection and the union of two boxes, as iou computes them.
Inter(a, b) ==
  LET x1 == Max(a.x, b.x)
      y1 == Max(a.y, b.y)
      x2 == Min(a.x + a.w, b.x + b.w)
      y2 == Min(a.y + a.h, b.y + b.h)
  IN Max(0, x2 - x1) * Max(0, y2 - y1)
Union(a, b) == a.w * a.h + b.w * b.h - Inter(a, b)

\* iou(a, b) >= thr, with iou = ua > 0 ? inter / ua : 0.  For the integer
\* boxes used here the quotient in double precision compares as the exact one.
IouAtLeastThr(a, b) ==
  /\ Union(a, b) > 0
  /\ ThrDen * Inter(a, b) >= ThrNum * Union(a, b)

\* A comparison that ignores the type; the separation of the types rests on
\* the difference to SameType.
TypeIgnored(o, b) == TRUE

\* (o.type || "") === (b.type || ""): a missing type is the type "".
SameType(o, b) == o.type = b.type

\* out.find(o => iou(o, b) >= thr && same type) finds a box; `kept` holds
\* the places in arr of the boxes in out.
HasDup(arr, kept, i) ==
  \E j \in 1..Len(kept) :
     IouAtLeastThr(arr[kept[j]], arr[i]) /\ SameType(arr[kept[j]], arr[i])

\* The loop of dedupeBoxes from place i on: the places of the boxes it keeps.
RECURSIVE DedupeFrom(_, _, _)
DedupeFrom(arr, i, kept) ==
  IF i > Len(arr) THEN kept
  ELSE DedupeFrom(arr, i + 1, IF HasDup(arr, kept, i) THEN kept ELSE Append(kept, i))

\* dedupeBoxes(arr): the places it keeps, and the array it returns.
DedupeKept(arr) == DedupeFrom(arr, 1, <<>>)
DedupeBoxes(arr) ==
  LET kept == DedupeKept(arr) IN [j \in 1..Len(kept) |-> arr[kept[j]]]

\* ---------------------------------------------------------------- dedupeBc
\* Strings are sequences of characters.  toUpperCase and trim on them:
UpperChar(ch) == IF ch = "a" THEN "A" ELSE ch
Upper(str) == [i \in 1..Len(str) |-> UpperChar(str[i])]

RECURSIVE TrimStart(_)
TrimStart(str) ==
  IF str # <<>> /\ Head(str) = " " THEN TrimStart(Tail(str)) ELSE str
RECURSIVE TrimEnd(_)
TrimEnd(str) ==
  IF str # <<>> /\ str[Len(str)] = " " THEN TrimEnd(SubSeq(str, 1, Len(str) - 1)) ELSE str
Trim(str) == TrimEnd(TrimStart(str))

\* const key = `${b.side||""}|${(b.symbology||"").toUpperCase()}|${String(b.value||"").trim()}`
BcKey(b) == b.side \o <<"|">> \o Upper(b.symbology) \o <<"|">> \o Trim(b.value)

\* The object that map.set stores for the first item of a key: a copy of
\* the item with the symbology in upper case and the value trimmed.
BcStored(b) ==
  [side |-> b.side, symbology |-> Upper(b.symbology), value |-> Trim(b.value),
   valid |-> b.valid, reason |-> b.reason]

\* cur.valid = cur.valid && b.valid; if (!cur.reason && b.reason) cur.reason = b.reason
BcMerged(cur, b) ==
  [cur EXCEPT !.valid = cur.valid /\ b.valid,
              !.reason = IF cur.reason = 0 /\ b.reason # 0 THEN b.reason ELSE cur.reason]

\* The place of `key` in the keys of the map, 0 if it has none.
KeyPlace(keys, key) ==
  IF \E j \in 1..Len(keys) : keys[j] = key
    THEN CHOOSE j \in 1..Len(keys) : keys[j] = key
    ELSE 0

\* The loop of dedupeBc from item i on; the map as its keys and its values
\* in the order of insertion.  The objects in the map are copies, so the
\* items of the argument stay as they are.
RECURSIVE DedupeBcFrom(_, _, _)
DedupeBcFrom(items, i, map) ==
  IF i > Len(items) THEN map
  ELSE LET b == items[i]
           key == BcKey(b)
           j == KeyPlace(map.keys, key)
       IN DedupeBcFrom(items, i + 1,
            IF j = 0
              THEN [keys |-> Append(map.keys, key), vals |-> Append(map.vals, BcStored(b))]
              ELSE [map EXCEPT !.vals[j] = BcMerged(map.vals[j], b)])

\* dedupeBc(items): [...map.values()]
DedupeBc(items) == DedupeBcFrom(items, 1, [keys |-> <<>>, vals |-> <<>>]).vals

\* ----------------------------------------- computations outside the component
\* The aspect ratios, frames and videos that the computations are tried on.
PureAspectRatios ==
  AspectRatios \cup { [n |-> 0, d |-> 1], [n |-> 1, d |-> 2], [n |-> 3, d |-> 2] }
PureEdges ==
  EdgeInputs \cup { Edges(96, 240, 40, 200),    \* a little too narrow for a square
                    Edges(40, 280, 80, 160) }   \* three times as wide as high
VideoSizes == { <<1280, 720>>, <<1280, 960>>, <<640, 480>>, <<720, 1280>> }
\* blob.size and maxBytes, in units of the budget; -1 is a null blob.
BlobSizes == {-1, 0, 1, 2, 3}
ByteBudgets == {1, 2}

\* The boxes dedupeBoxes is tried on: three boxes of which the first and the
\* second and the second and the third overlap by more than the threshold
\* but the first and the third do not, two of them with another type as
\* well, and a box apart from them.
Box(x, y, w, h, type) == [x |-> x, y |-> y, w |-> w, h |-> h, type |-> type]
BoxInputs ==
  { Box(0, 0, 100, 100, "diff"), Box(0, 0, 100, 91, "diff"), Box(0, 0, 100, 83, "diff"),
    Box(0, 0, 100, 100, "ocr"), Box(0, 0, 100, 91, ""), Box(200, 200, 10, 10, "diff") }

\* The items dedupeBc is tried on.  A side is the empty string (no side) or
\* one word; reason 0 is null.
BcItem(side, symbology, value, valid, reason) ==
  [side |-> side, symbology |-> symbology, value |-> value, valid |-> valid,
   reason |-> reason]
BcInputs ==
  { BcItem(<<>>, <<"a">>, <<"x">>, TRUE, 0),
    BcItem(<<>>, <<"A">>, <<" ", "x", " ">>, FALSE, 1),
    BcItem(<<"master">>, <<"A">>, <<"x">>, TRUE, 0),
    BcItem(<<>>, <<"A">>, <<"y">>, TRUE, 1),
    BcItem(<<>>, <<"A", "|", "A">>, <<"x">>, TRUE, 0),
    BcItem(<<>>, <<"A">>, <<"A", "|", "x">>, FALSE, 0) }

RECURSIVE SeqsUpTo(_, _)
SeqsUpTo(S, n) ==
  IF n = 0 THEN { <<>> }
  ELSE LET shorter == SeqsUpTo(S, n - 1)
       IN shorter \cup { Append(q, x) : q \in shorter, x \in S }

\* The frames centralCrop is tried on: the canvas of handleCapture for each
\* video, the videos themselves, and two small frames.
CropFrames ==
  { CapFrame(v[1], v[2]) : v \in VideoSizes }
  \cup { [w |-> v[1], h |-> v[2]] : v \in VideoSizes }
  \cup { [w |-> 1, h |-> 1], [w |-> 3, h |-> 7] }

PureInputs ==
  { [fn |-> "locate", pc |-> "start", ar |-> ar, e |-> e] :
      ar \in PureAspectRatios, e \in PureEdges }
  \cup
  { [fn |-> "capture", pc |-> "start", ar |-> ar, e |-> e, vw |-> v[1], vh |-> v[2]] :
      ar \in PureAspectRatios, e \in EdgeInputs \ {NoEdges}, v \in VideoSizes }
  \cup
  { [fn |-> "export", pc |-> "start", maxBytes |-> m] : m \in ByteBudgets }
  \cup
  { [fn |-> "dedupeBoxes", pc |-> "start", arr |-> a] : a \in SeqsUpTo(BoxInputs, MaxBoxes) }
  \cup
  { [fn |-> "dedupeBc", pc |-> "start", items |-> a] : a \in SeqsUpTo(BcInputs, MaxItems) }
  \cup
  { [fn |-> "crop", pc |-> "start", ar |-> ar, frame |-> f] :
      ar \in PureAspectRatios, f \in CropFrames }

\* The locator of tick on one frame, and the target of the capture for the
\* same aspectRatio.
LocateFrame ==
  /\ calc.fn = "locate" /\ calc.pc = "start"
  /\ InScan(calc.e)
  /\ calc' = [fn |-> "locate", pc |-> "done", ar |-> calc.ar, e |-> calc.e,
              cand |-> Candidate(calc.e, calc.ar),
              box |-> Locate(calc.e, calc.ar),
              target |-> CaptureTargetAR(calc.ar)]
  /\ UNCHANGED <<componentVars, page>>

\* The size of the artifact of a capture: of the freeze version, and of the
\* smooth version when the region is the one of the frame e.
CaptureSize ==
  /\ calc.fn = "capture" /\ calc.pc = "start"
  /\ calc' = [fn |-> "capture", pc |-> "done", ar |-> calc.ar, e |-> calc.e,
              vw |-> calc.vw, vh |-> calc.vh,
              freeze |-> FreezeOutput(calc.ar),
              smooth |-> SmoothOutput(Locate(calc.e, calc.ar), calc.vw, calc.vh)]
  /\ UNCHANGED <<componentVars, page>>

\* The crop of handleCapture of the freeze version out of a frame:
\* centralCrop(W, H, targetAR) with targetAR = aspectRatio > 0 ? aspectRatio : 1.
CropFrame ==
  /\ calc.fn = "crop" /\ calc.pc = "start"
  /\ LET f == calc.frame
         t == CaptureTargetAR(calc.ar)
     IN calc' = [fn |-> "crop", pc |-> "done", ar |-> calc.ar, frame |-> f,
                 target |-> t, crop |-> CentralCrop(f.w, f.h, t)]
  /\ UNCHANGED <<componentVars, page>>

\* dedupeBoxes(arr), and dedupeBoxes of its result.
DedupeBoxesCall ==
  /\ calc.fn = "dedupeBoxes" /\ calc.pc = "start"
  /\ calc' = [fn |-> "dedupeBoxes", pc |-> "done", arr |-> calc.arr,
              kept |-> DedupeKept(calc.arr),
              out |-> DedupeBoxes(calc.arr),
              again |-> DedupeBoxes(DedupeBoxes(calc.arr))]
  /\ UNCHANGED <<componentVars, page>>

\* dedupeBc(items): what it returns, and the items after the call.
DedupeBcCall ==
  /\ calc.fn = "dedupeBc" /\ calc.pc = "start"
  /\ calc' = [fn |-> "dedupeBc", pc |-> "done", items |-> calc.items,
              out |-> DedupeBc(calc.items), after |-> calc.items]
  /\ UNCHANGED <<componentVars, page>>

\* exportCroppedRegion: let q = 0.92 and the first toBlob, which gives a blob
\* of `size`; without a blob it throws.
ExportFirstEncode(size) ==
  /\ calc.fn = "export" /\ calc.pc = "start"
  /\ calc' = [fn |-> "export", pc |-> IF size < 0 THEN "thrown" ELSE "loop",
              maxBytes |-> calc.maxBytes, q |-> QStart, size |-> size, n |-> 1]
  /\ UNCHANGED <<componentVars, page>>

\* One iteration of while (blob.size > maxBytes && q > 0.6): q -= 0.08 and
\* toBlob again; without a blob the loop breaks and the function throws.
ExportReencode(size) ==
  /\ calc.fn = "export" /\ calc.pc = "loop"
  /\ calc.size > calc.maxBytes /\ LimbGt(calc.q, QFloor)
  /\ calc' = [calc EXCEPT !.pc = IF size < 0 THEN "thrown" ELSE "loop",
                          !.q = QualityStep(calc.q), !.size = size, !.n = calc.n + 1]
  /\ UNCHANGED <<componentVars, page>>

\* The loop condition is false: the function returns the file of the blob.
ExportReturn ==
  /\ calc.fn = "export" /\ calc.pc = "loop"
  /\ ~(calc.size > calc.maxBytes /\ LimbGt(calc.q, QFloor))
  /\ calc' = [calc EXCEPT !.pc = "returned"]
  /\ UNCHANGED <<componentVars, page>>

\* ----------------------------------------------------------- the Compare page
\* The page after its first render.  A file is 0 (null) or the number of the
\* upload that produced it; a preview URL is 0 ("") or the number of the
\* upload of whose file it is the data URL.  `uploads` holds a record for
\* each run of onMasterFromCamera / onEtiketaFromCamera, `cmp` the run of
\* doCompare: where it stands, the files and the preview it was started
\* with, and its requests with their answers.
NoCompare == [pc |-> "idle", masterFile |-> 0, etiketaFile |-> 0, masterUrl |-> 0,
              log |-> <<>>]
PageStart ==
  [on |-> TRUE, masterFile |-> 0, masterUrl |-> 0, etiketaFile |-> 0, etiketaUrl |-> 0,
   uploads |-> <<>>, isComparing |-> FALSE, view |-> "none", compares |-> 0,
   cmp |-> NoCompare]

Sides == {"master", "etiketa"}
FileOf(side) == IF side = "master" THEN "masterFile" ELSE "etiketaFile"
UrlOf(side) == IF side = "master" THEN "masterUrl" ELSE "etiketaUrl"

\* onMasterFromCamera / onEtiketaFromCamera with a photo: up to the await
\* of processCameraImage.
OnFromCamera(side) ==
  /\ page.on
  /\ Len(page.uploads) < MaxUploads
  /\ page' = [page EXCEPT !.uploads = Append(@, [side |-> side, pc |-> "process"])]
  /\ UNCHANGED <<componentVars, calc>>

\* processCameraImage of upload u settles.  With a file the handler goes on:
\* setMasterFile(f) (setEtiketaFile), then it awaits fileToDataURL(f).  When
\* it rejects (the photo does not decode, no canvas context, no blob) the
\* handler ends there.
PhotoProcessed(u, ok) ==
  /\ page.on
  /\ u \in 1..Len(page.uploads)
  /\ page.uploads[u].pc = "process"
  /\ page' = IF ok
               THEN [page EXCEPT ![FileOf(page.uploads[u].side)] = u,
                                 !.uploads[u].pc = "read"]
               ELSE [page EXCEPT !.uploads[u].pc = "failed"]
  /\ UNCHANGED <<componentVars, calc>>

\* fileToDataURL of upload u resolves: setMasterUrl(...) (setEtiketaUrl).
PreviewRead(u) ==
  /\ page.on
  /\ u \in 1..Len(page.uploads)
  /\ page.uploads[u].pc = "read"
  /\ page' = [page EXCEPT ![UrlOf(page.uploads[u].side)] = u,
                          !.uploads[u].pc = "done"]
  /\ UNCHANGED <<componentVars, calc>>

\* What a request of doCompare can come to: the fetch or the parsing of the
\* body rejects ("failed"); the body is a falsy JSON value such as null
\* ("falsy"); it is a value without results, such as {raw, status}
\* ("unusable"); it is a result ("label").
Outcomes == {"failed", "falsy", "unusable", "label"}
Request(to) == [to |-> to, got |-> "pending"]

\* A doCompare that goes on to the next backend whatever it got; the order
\* of the backends rests on the difference to NoResp.
AlwaysNextBackend(outcome) == TRUE

\* !resp, with resp = await fetchJSON(...).catch(() => null)
NoResp(outcome) == outcome \in {"failed", "falsy"}

\* The button: disabled={isComparing || !masterFile || !etiketaFile}
CompareDisabled == page.isComparing \/ page.masterFile = 0 \/ page.etiketaFile = 0

\* A click on the button: doCompare up to its first await.  Without both
\* files it alerts and returns; otherwise setIsComparing(true) and the
\* request to the Java backend.
DoCompare ==
  /\ page.on
  /\ ~CompareDisabled
  /\ page.compares < MaxCompares
  /\ page' = IF page.masterFile = 0 \/ page.etiketaFile = 0
               THEN [page EXCEPT !.compares = @ + 1]
               ELSE [page EXCEPT !.compares = @ + 1,
                                 !.isComparing = TRUE,
                                 !.cmp = [pc |-> "java", masterFile |-> page.masterFile,
                                          etiketaFile |-> page.etiketaFile,
                                          masterUrl |-> page.masterUrl,
                                          log |-> <<Request("java")>>]]
  /\ UNCHANGED <<componentVars, calc>>

\* The end of doCompare: setView(label) with a result, otherwise an alert
\* and setView(null); finally setIsComparing(false).
CompareEnds(p, outcome) ==
  [p EXCEPT !.cmp.pc = "idle",
            !.isComparing = FALSE,
            !.view = IF outcome = "label" THEN "label" ELSE "none"]

\* The log of the requests with the pending one answered.
Answered(log, outcome) == [log EXCEPT ![Len(log)].got = outcome]

\* The request to the Java backend settles: without a response doCompare
\* asks the Python backend.
JavaAnswers(outcome) ==
  /\ page.on
  /\ page.cmp.pc = "java"
  /\ LET log == Answered(page.cmp.log, outcome)
     IN page' = IF NoResp(outcome)
                  THEN [page EXCEPT !.cmp.pc = "python",
                                    !.cmp.log = Append(log, Request("python"))]
                  ELSE CompareEnds([page EXCEPT !.cmp.log = log], outcome)
  /\ UNCHANGED <<componentVars, calc>>

\* The request to /api/compare-one of the Python backend settles: without a
\* response doCompare loads the preview of the master for the old endpoint.
PythonAnswers(outcome) ==
  /\ page.on
  /\ page.cmp.pc = "python"
  /\ LET log == Answered(page.cmp.log, outcome)
     IN page' = IF NoResp(outcome)
                  THEN [page EXCEPT !.cmp.pc = "image", !.cmp.log = log]
                  ELSE CompareEnds([page EXCEPT !.cmp.log = log], outcome)
  /\ UNCHANGED <<componentVars, calc>>

\* loadImage(masterUrl) settles: with the image the request to /api/compare
\* is sent; a rejection (there is no preview yet, or it does not decode)
\* ends doCompare in its catch.
MasterImageLoads(ok) ==
  /\ page.on
  /\ page.cmp.pc = "image"
  /\ ok => page.cmp.masterUrl # 0
  /\ page' = IF ok
               THEN [page EXCEPT !.cmp.pc = "legacy",
                                 !.cmp.log = Append(@, Request("legacy"))]
               ELSE CompareEnds(page, "failed")
  /\ UNCHANGED <<componentVars, calc>>

\* The request to /api/compare settles; a rejection is caught by doCompare.
LegacyAnswers(outcome) ==
  /\ page.on
  /\ page.cmp.pc = "legacy"
  /\ page' = CompareEnds([page EXCEPT !.cmp.log = Answered(@, outcome)], outcome)
  /\ UNCHANGED <<componentVars, calc>>

\* ------------------------------------------------------------ specification
\* No computation outside the component is under way.
NoCalc == [fn |-> "none"]
\* The Compare page is not rendered.
NoPage == [on |-> FALSE]

\* The instance of version v after its first render and the first run of
\* its effects.
InitOf(v) ==
  /\ variant = v
  /\ aspectRatio \in AspectRatios
  /\ mounted = TRUE
  /\ hasMediaDevices \in BOOLEAN
  /\ camRuns = <<CameraEffectRun>>
  /\ srcObject = 0
  /\ readyState = 0
  /\ hasPermission = FALSE
  /\ errorMsg = IF hasMediaDevices THEN "none" ELSE "unsupported"
  /\ isProcessing = FALSE
  /\ isFrozen = FALSE
  /\ lastPreviewUrl = 0
  /\ lastShotAt = 0
  /\ flash = FALSE
  /\ flashTimers = 0
  /\ clicks = 0
  /\ nStarted = 0
  /\ encoding = {}
  /\ blobbed = {}
  /\ calls = <<>>
  /\ retakes = 0
  /\ smoothBox = NoBox
  /\ box = NoBox
  /\ isGood = FALSE
  /\ ticks = 0
  /\ goodRun = 0
  /\ missRun = 0
  /\ dropped = FALSE
  /\ accepted = FALSE
  /\ arFresh = FALSE
  /\ anaRun = IF v = "smooth" THEN 1 ELSE 0
  /\ rafQueue = IF v = "smooth" THEN {1} ELSE {}
  /\ calc = NoCalc
  /\ page = NoPage

\* What the camera, the video element, React and the parent do.
NextCamera ==
  \/ \E r \in 1..MaxRuns : StreamArrives(r)
  \/ \E r \in 1..MaxRuns : StreamRefused(r)
  \/ \E r \in 1..MaxRuns : PlaySettles(r)
  \/ VideoProgress
  \/ Remount
  \/ Unmount
  \/ \E ar \in AspectRatios : ChangeAspectRatio(ar)

\* toBlob calls back for a pending capture.
EncodeSettles ==
  \E k \in encoding, blob \in BOOLEAN, throws \in BOOLEAN : EncodeDone(k, blob, throws)

\* A capture: the click and the callback of toBlob.
NextCapture ==
  \/ \E ctxOk \in BOOLEAN : ClickCapture(ctxOk)
  \/ EncodeSettles

\* The freeze/retake version.
Init == InitOf("freeze")
Next ==
  \/ NextCamera
  \/ NextCapture
  \/ ClickRetake
  \/ FlashTimeout
Spec == Init /\ [][Next]_vars

\* The same with the timers of the browser: a timer that is due fires.
SpecFair == Spec /\ WF_vars(FlashTimeout)

\* The same with an encoder that answers: toBlob calls its callback, with a
\* blob or with null.
SpecLive == Spec /\ WF_vars(EncodeSettles)

\* The analysis loop of the version with the smoothed frame.  Its
\* handleCapture reads smoothBoxRef and writes no state of the component, so
\* the captures are left out here.
InitSmooth == InitOf("smooth")
NextSmooth ==
  \/ NextCamera
  \/ \E r \in rafQueue, e \in EdgeInputs : Tick(r, e)
SpecSmooth == InitSmooth /\ [][NextSmooth]_vars

\* The version with the smoothed frame with its captures, for an instance
\* that is mounted once and keeps its aspectRatio: the analysis loop next to
\* handleCapture and the callback of toBlob.
NextSmoothCapture ==
  \/ \E r \in 1..MaxRuns : StreamArrives(r)
  \/ \E r \in 1..MaxRuns : PlaySettles(r)
  \/ VideoProgress
  \/ Unmount
  \/ \E r \in rafQueue, e \in EdgeInputs : Tick(r, e)
  \/ NextCapture
SpecSmoothCapture == InitSmooth /\ [][NextSmoothCapture]_vars

\* No LabelCamera is mounted.
NoComponent ==
  /\ variant = "none"
  /\ aspectRatio = One
  /\ mounted = FALSE
  /\ hasMediaDevices = FALSE
  /\ camRuns = <<>>
  /\ srcObject = 0
  /\ readyState = 0
  /\ hasPermission = FALSE
  /\ errorMsg = "none"
  /\ isProcessing = FALSE
  /\ isFrozen = FALSE
  /\ lastPreviewUrl = 0
  /\ lastShotAt = 0
  /\ flash = FALSE
  /\ flashTimers = 0
  /\ clicks = 0
  /\ nStarted = 0
  /\ encoding = {}
  /\ blobbed = {}
  /\ calls = <<>>
  /\ retakes = 0
  /\ smoothBox = NoBox
  /\ box = NoBox
  /\ isGood = FALSE
  /\ ticks = 0
  /\ goodRun = 0
  /\ missRun = 0
  /\ dropped = FALSE
  /\ accepted = FALSE
  /\ arFresh = FALSE
  /\ anaRun = 0
  /\ rafQueue = {}

\* The computations on their own.
InitPure ==
  /\ calc \in PureInputs
  /\ page = NoPage
  /\ NoComponent
NextPure ==
  \/ LocateFrame
  \/ CaptureSize
  \/ CropFrame
  \/ DedupeBoxesCall
  \/ DedupeBcCall
  \/ \E size \in BlobSizes : ExportFirstEncode(size)
  \/ \E size \in BlobSizes : ExportReencode(size)
  \/ ExportReturn
SpecPure == InitPure /\ [][NextPure]_vars

\* The Compare page: photos for both sides and the comparison.
InitPage ==
  /\ calc = NoCalc
  /\ page = PageStart
  /\ NoComponent
NextPage ==
  \/ \E side \in Sides : OnFromCamera(side)
  \/ \E u \in 1..MaxUploads, ok \in BOOLEAN : PhotoProcessed(u, ok)
  \/ \E u \in 1..MaxUploads : PreviewRead(u)
  \/ DoCompare
  \/ \E outcome \in Outcomes : JavaAnswers(outcome)
  \/ \E outcome \in Outcomes : PythonAnswers(outcome)
  \/ \E ok \in BOOLEAN : MasterImageLoads(ok)
  \/ \E outcome \in Outcomes : LegacyAnswers(outcome)
SpecPage == InitPage /\ [][NextPage]_vars

\* ---------------------------------------------------------------- properties
\* Runs of the camera effect whose stream has a track that is not stopped.
LiveRuns == {r \in 1..Len(camRuns) : camRuns[r].stream = "live"}

\* The captures whose onCapture was invoked.
CalledIds == {calls[i].id : i \in 1..Len(calls)}

\* C1 (Spec): in the freeze/retake version at most one handleCapture run is
\* between its start and the end of its encode, and the processing flag is
\* set for as long as one is.
AtMostOneCaptureInFlight ==
  /\ Cardinality(encoding) <= 1
  /\ encoding # {} => isProcessing

\* C1: a second capture is being encoded, the first one has finished.
SecondCaptureInFlight ==
  /\ nStarted = 2
  /\ encoding = {2}
  /\ isProcessing

NoReadinessBeforeWarmup == isGood => ticks >= WarmupTicks

\* C4 (SpecSmooth), as the claim states it: after a tick that lost the
\* region, readiness is declared only when a full new run of MinRun accepted
\* ticks has accumulated.  The code keeps no run counter: one accepted tick
\* sets isGood again.
ReadinessNeedsFullRun == (dropped /\ isGood) => goodRun >= MinRun

FrozenOnlyBetweenCaptureAndRetake ==
  /\ [](isFrozen => encoding = {})
  /\ [][/\ (~isFrozen /\ isFrozen') =>
             /\ Len(calls') = Len(calls) + 1
             /\ blobbed' # blobbed
        /\ (isFrozen /\ ~isFrozen') => retakes' = retakes + 1
        /\ isFrozen =>
             /\ nStarted' = nStarted
             /\ calls' = calls]_vars

\* C6: the component is frozen for the second time: capture, retake, capture.
FrozenAgainAfterRetake ==
  /\ isFrozen
  /\ retakes = 1
  /\ Len(calls) = 2

\* C7 (Spec), as the claim states it: onCapture is never invoked by a capture
\* whose encode ended after the component was unmounted.  handleCapture has
\* no liveness flag and invokes it all the same.
NoOnCaptureAfterUnmount == \A i \in 1..Len(calls) : calls[i].live

\* C8 (Spec): a run of the camera effect that was cleaned up has no live
\* stream, so after the unmount no stream is live and at most one is at any
\* time; and a stream is attached to the video element only by a run that is
\* still active, of a mounted component.
StreamsStoppedAfterCleanup ==
  /\ [](/\ \A r \in 1..Len(camRuns) : ~camRuns[r].active => r \notin LiveRuns
        /\ \A r \in 1..Len(camRuns) : camRuns[r].active => (mounted /\ r = Len(camRuns))
        /\ Cardinality(LiveRuns) <= 1
        /\ ~mounted => LiveRuns = {})
  /\ [][srcObject' # srcObject =>
          /\ mounted
          /\ camRuns[srcObject'].active
          /\ camRuns'[srcObject'].stream = "live"]_vars

\* C8: mount, remount, unmount; both getUserMedia requests were answered
\* after the cleanup of their runs, both streams are stopped and none was
\* attached.
LateStreamsStopped ==
  /\ ~mounted
  /\ Len(camRuns) = 2
  /\ camRuns[1].stream = "stopped"
  /\ camRuns[2].stream = "stopped"
  /\ srcObject = 0

\* C9 (SpecSmooth), as the claim states it: after a change of aspectRatio
\* the smoothed region is unset when the next tick analyses a frame.  The
\* analysis effect runs again but smoothBoxRef keeps its value.
AspectChangeResetsFrame == arFresh => smoothBox = NoBox

ZeroSizeCaptureIsNoOp ==
  [][(clicks' # clicks /\ readyState = 0) =>
       /\ calls' = calls
       /\ UNCHANGED <<isProcessing, isFrozen, lastPreviewUrl, lastShotAt, flash,
                      flashTimers>>
       /\ UNCHANGED <<nStarted, encoding, blobbed>>]_vars

\* C13: the capture button was clicked while the video never had a stream.
ClickedWithoutVideo ==
  /\ clicks >= 1
  /\ srcObject = 0
  /\ readyState = 0
  /\ nStarted = 0
  /\ ~isProcessing

\* C14 (Spec): the step that ends a capture without a blob invokes no
\* onCapture and leaves the component not frozen, without preview and
\* timestamp, with the flash untouched and, while mounted, not processing,
\* so that the button starts a capture again.
FailedEncodeRestoresState ==
  [][((\E k \in encoding : encoding' = encoding \ {k}) /\ blobbed' = blobbed) =>
       /\ calls' = calls
       /\ ~isFrozen'
       /\ lastPreviewUrl' = 0
       /\ lastShotAt' = 0
       /\ UNCHANGED <<flash, flashTimers>>
       /\ mounted => (~isProcessing' /\ ~ButtonDisabled' /\ ButtonOnClick' = "handleCapture")]_vars

\* C14: the first capture ended without a blob, the second one succeeded.
SuccessAfterFailedEncode ==
  /\ nStarted = 2
  /\ blobbed = {2}
  /\ Len(calls) = 1
  /\ isFrozen

\* C17 (SpecSmooth), as the claim states it: with an error message set, no
\* analysis tick is scheduled.  The analysis effect requests its first
\* animation frame whatever the camera does, and tick keeps requesting the
\* next one.
NoTickWithoutCamera == errorMsg # "none" => rafQueue = {}

\* C18 (SpecSmooth), as the claim states it: whenever the video has a size,
\* the capture button starts a capture, also before any region was found.
\* The smooth version disables the button and returns from handleCapture
\* while smoothBoxRef is null; it has no centre crop.
ManualCaptureWithoutRegion == (mounted /\ readyState >= 1) => ~ButtonDisabled

RegionWithinFrame ==
  smoothBox.ok =>
    /\ smoothBox.x >= 0
    /\ smoothBox.y >= 0
    /\ smoothBox.w > 0
    /\ smoothBox.h > 0
    /\ smoothBox.x + smoothBox.w <= W * SmoothScale
    /\ smoothBox.y + smoothBox.h <= H * SmoothScale

\* Width and height of an artifact have the ratio t within one pixel: one
\* pixel more or less in one of the two makes the ratio exact.
WithinOnePixel(o, t) == Abs(o.w * t.d - o.h * t.n) <= Max(t.n, t.d)

\* C11 (SpecPure), as the claim states it: for a target aspect ratio > 0 the
\* artifact of either version has that ratio within one pixel, whatever the
\* size of the video.  The smooth version cuts the region out of the video
\* as it is: its size follows the region and the shape of the video.
ArtifactHasTargetRatio ==
  (calc.fn = "capture" /\ calc.pc = "done" /\ calc.ar.n > 0) =>
    /\ WithinOnePixel(calc.freeze, calc.ar)
    /\ calc.smooth.ok => WithinOnePixel(calc.smooth, calc.ar)

\* C12 (SpecPure), as the claim states it: the loop ends after a bounded
\* number of encodes, and the file it returns is within the budget or was
\* encoded at a quality not below the floor 0.6.  In double precision the
\* fourth reduction gives 0.6000000000000002 > 0.6, so an oversized image is
\* reduced once more and returned at 0.52.
ExportWithinBudgetOrAtFloor ==
  calc.fn = "export" =>
    /\ calc.pc # "start" => calc.n <= 6
    /\ calc.pc = "returned" =>
         (calc.size <= calc.maxBytes \/ ~LimbGt(QFloor, calc.q))

\* C15 (SpecPure), as the claim states it: with an aspectRatio <= 0 the
\* locator finds what it finds for a square label and the capture aims at a
\* square.  The capture does (aspectRatio > 0 ? aspectRatio : 1), but tick
\* uses aspectRatio || 1, which keeps a negative value.
InvalidRatioIsSquare ==
  (calc.fn = "locate" /\ calc.pc = "done" /\ calc.ar.n <= 0) =>
    /\ calc.target = One
    /\ calc.cand = Candidate(calc.e, One)
    /\ calc.box = Locate(calc.e, One)

\* C19 (SpecPure): for a target aspect ratio > 0, a box that is not wider
\* than the target and whose correction is not clamped keeps its height and
\* its vertical position, keeps its centre, and gets the target ratio within
\* one pixel; the box x=0.3, y=0.2, w=0.3, h=0.5 with target 1 becomes the
\* square of 120 pixels around the same centre, which is a square in a video
\* of 1280 x 960 as well.
CorrectionWidensAboutCentre ==
  (calc.fn = "locate" /\ calc.pc = "done" /\ calc.e # NoEdges /\ calc.ar.n > 0) =>
    LET e == calc.e
        c == calc.cand
        t == calc.ar
        tall == (e.maxX - e.minX) * t.d <= t.n * (e.maxY - e.minY)
        free == c.minX > 0 /\ c.minX + c.bw < W - 1
    IN /\ (tall /\ free) =>
            /\ c.minY = e.minY
            /\ c.bh = e.maxY - e.minY
            /\ Abs((2 * c.minX + c.bw) - (e.minX + e.maxX)) <= 1
            /\ Abs(c.bw * t.d - c.bh * t.n) <= t.d
       /\ (e = Edges(96, 192, 48, 168) /\ t = One) =>
            /\ c.minX = 84 /\ c.bw = 120
            /\ c.minY = 48 /\ c.bh = 120
            /\ c.bw * 1280 * H = c.bh * 960 * W

\* C19: the correction of the box x=0.3, y=0.2, w=0.3, h=0.5 for target 1
\* has been computed.
ScenarioBoxCorrected ==
  /\ calc.fn = "locate"
  /\ calc.pc = "done"
  /\ calc.e = Edges(96, 192, 48, 168)
  /\ calc.ar = One
  /\ calc.cand.bw = calc.cand.bh

\* C21 (SpecSmooth): an instance has at most one pending animation-frame
\* callback, the one of the current run of the analysis effect, and none
\* once it is unmounted; a tick leaves exactly that callback pending (it
\* requests the next frame as its last statement); and a frame is analysed
\* only by the callback of the current run of a mounted instance, never by
\* one of a run that was cleaned up.
TicksSequential ==
  /\ [](/\ Cardinality(rafQueue) <= 1
        /\ rafQueue \subseteq {anaRun}
        /\ ~mounted => rafQueue = {})
  /\ [][ticks' # ticks =>
          /\ mounted
          /\ rafQueue = {anaRun}
          /\ rafQueue' = rafQueue
          /\ anaRun' = anaRun]_vars

\* C21: the aspectRatio changed after the mount, the loop of the new run
\* has analysed a frame and its next callback is pending.
LoopRunsAfterRerun ==
  /\ anaRun > Len(camRuns)
  /\ ~arFresh
  /\ ticks >= 2
  /\ rafQueue = {anaRun}

\* C22 (SpecSmoothCapture), as the claim states it: while a capture is
\* between the start of handleCapture and the end of its encode, no tick
\* analyses a frame or writes the region or the readiness.  The smooth
\* version has no processing flag and tick looks at nothing but
\* video.readyState: the loop goes on during the encode.
TicksSkippedDuringCapture ==
  [][encoding # {} =>
       /\ ticks' = ticks
       /\ UNCHANGED <<smoothBox, box, isGood>>]_vars

CentralCropFitsFrame ==
  (calc.fn = "crop" /\ calc.pc = "done") =>
    LET f == calc.frame
        t == calc.target
        r == calc.crop
    IN /\ t.n > 0 /\ t.d > 0
       /\ r.sw > 0 /\ r.sh > 0
       /\ r.sx >= 0 /\ r.sy >= 0
       /\ r.sx + r.sw <= f.w * r.den
       /\ r.sy + r.sh <= f.h * r.den
       /\ 2 * r.sx + r.sw = f.w * r.den
       /\ 2 * r.sy + r.sh = f.h * r.den
       /\ r.sw * t.d = r.sh * t.n
       /\ 10 * r.sw <= 7 * f.w * r.den
       /\ 10 * r.sh <= 7 * f.h * r.den
       /\ (10 * r.sw = 7 * f.w * r.den \/ 10 * r.sh = 7 * f.h * r.den)

\* C24: a crop that the height of the frame limits: a square out of the
\* frame of a video of 1280 x 720 pixels, 504 pixels wide and high.
CropLimitedByHeight ==
  /\ calc.fn = "crop"
  /\ calc.pc = "done"
  /\ calc.frame = [w |-> 1280, h |-> 720]
  /\ calc.target = One
  /\ calc.crop.sw = 504 * calc.crop.den
  /\ calc.crop.sh = 504 * calc.crop.den
  /\ 10 * calc.crop.sw < 7 * calc.frame.w * calc.crop.den

\* Two boxes that dedupeBoxes takes for one: the same type and an IoU of
\* at least the threshold.
Duplicates(a, b) == a.type = b.type /\ IouAtLeastThr(a, b)

\* C25 (SpecPure): dedupeBoxes returns a subsequence of its argument in
\* which no two boxes are duplicates of each other; every box it drops is
\* the duplicate of a box before it that is kept; a box whose type no
\* earlier box has is kept; and dedupeBoxes of the result is the result.
DedupeBoxesGreedy ==
  (calc.fn = "dedupeBoxes" /\ calc.pc = "done") =>
    LET arr == calc.arr
        kept == calc.kept
        out == calc.out
        K == {kept[j] : j \in 1..Len(kept)}
    IN /\ Len(out) = Len(kept)
       /\ \A j \in 1..Len(kept) : kept[j] \in 1..Len(arr) /\ out[j] = arr[kept[j]]
       /\ \A i, j \in 1..Len(kept) : i < j => kept[i] < kept[j]
       /\ \A i, j \in 1..Len(out) : i # j => ~Duplicates(out[i], out[j])
       /\ \A i \in (1..Len(arr)) \ K :
             \E k \in K : k < i /\ Duplicates(arr[k], arr[i])
       /\ \A i \in 1..Len(arr) :
             (\A k \in 1..(i - 1) : arr[k].type # arr[i].type) => i \in K
       /\ calc.again = out

\* C25: of three boxes of one type, each the duplicate of the next but the
\* first not of the third, the first and the third are kept.
ChainOfDuplicates ==
  /\ calc.fn = "dedupeBoxes"
  /\ calc.pc = "done"
  /\ calc.arr = << Box(0, 0, 100, 100, "diff"), Box(0, 0, 100, 91, "diff"),
                   Box(0, 0, 100, 83, "diff") >>
  /\ calc.kept = <<1, 3>>

\* The key of a barcode item: its side, its symbology in upper case and its
\* trimmed value.
BcTriple(b) == <<b.side, Upper(b.symbology), Trim(b.value)>>

\* The distinct keys of the first i items, in the order of first occurrence.
RECURSIVE FirstTriples(_, _)
FirstTriples(items, i) ==
  IF i = 0 THEN <<>>
  ELSE LET before == FirstTriples(items, i - 1)
           t == BcTriple(items[i])
       IN IF \E j \in 1..Len(before) : before[j] = t THEN before ELSE Append(before, t)

\* C26 (SpecPure), as the claim states it: dedupeBc returns one item for
\* each distinct key (side, upper-cased symbology, trimmed value) in the
\* order of first occurrence, an item is valid only if every item of the
\* argument with its key is, and the items of the argument are not
\* modified.  The map is keyed by the three parts joined with "|": two keys
\* whose joined strings are equal (symbology "A|A" with value "x",
\* symbology "A" with value "A|x") are taken for one.
DedupeBcOnePerKey ==
  (calc.fn = "dedupeBc" /\ calc.pc = "done") =>
    LET items == calc.items
        out == calc.out
    IN /\ [j \in 1..Len(out) |-> BcTriple(out[j])] = FirstTriples(items, Len(items))
       /\ \A j \in 1..Len(out) :
             out[j].valid =>
               \A i \in 1..Len(items) : BcTriple(items[i]) = BcTriple(out[j]) => items[i].valid
       /\ calc.after = items

\* The endpoints of doCompare in their order.
Backends == <<"java", "python", "legacy">>

\* C27 (SpecPage), amended: the requests of a run of doCompare go to the
\* Java endpoint, the Python endpoint and the old Python endpoint in this
\* order; a later one is sent only if every earlier one failed or was
\* answered with a falsy value, and the last one only with a preview of the
\* master; a request is sent only by a run that was started with both
\* files, and is pending only while the page is comparing.
CompareFallbackOrder ==
  page.on =>
    LET log == page.cmp.log
    IN /\ Len(log) <= 3
       /\ \A i \in 1..Len(log) : log[i].to = Backends[i]
       /\ \A i \in 1..Len(log) : i < Len(log) => log[i].got \in {"failed", "falsy"}
       /\ Len(log) = 3 => page.cmp.masterUrl # 0
       /\ log # <<>> => (page.cmp.masterFile # 0 /\ page.cmp.etiketaFile # 0)
       /\ (log # <<>> /\ log[Len(log)].got = "pending") => page.isComparing

\* C27: the Java request failed, the Python backend answered null, and the
\* old endpoint gave the result that is shown.
FellBackToLegacy ==
  /\ page.on
  /\ Len(page.cmp.log) = 3
  /\ page.cmp.log[1].got = "failed"
  /\ page.cmp.log[2].got = "falsy"
  /\ page.cmp.log[3].got = "label"
  /\ page.view = "label"
  /\ ~page.isComparing

\* C27, as the claim states it: a later endpoint is requested only if every
\* earlier request produced no response.  A response whose body is a falsy
\* JSON value is taken for none.
FallbackOnlyWithoutResponse ==
  page.on =>
    \A i \in 1..Len(page.cmp.log) :
       i < Len(page.cmp.log) => page.cmp.log[i].got = "failed"

\* C29 (SpecPage), as the claim states it: when no camera upload handler of
\* a side is under way, the preview of the side is the data URL of its
\* file.  Each handler sets the file after one await and the preview after
\* another; of two handlers of one side the later one can set the file last
\* and the earlier one the preview last.
PreviewMatchesFile ==
  page.on =>
    \A side \in Sides :
       (\A u \in 1..Len(page.uploads) :
           page.uploads[u].side = side => page.uploads[u].pc \in {"done", "failed"})
       => page[UrlOf(side)] = page[FileOf(side)]

\* C28 (SpecLive): the processing flag of a mounted component is set only
\* while an encode is pending, the step that ends the encode clears it
\* (without a blob, with an onCapture that throws, with success), a run that
\* finds no canvas context leaves it cleared, and so a flag that is set is
\* cleared again as long as the component is mounted: the button does not
\* stay disabled.
ProcessingAlwaysCleared ==
  /\ []((isProcessing /\ mounted) => encoding # {})
  /\ [][(mounted /\ encoding # {} /\ encoding' = {}) =>
          (~isProcessing' /\ ~ButtonDisabled')]_vars
  /\ (isProcessing /\ mounted) ~> (~isProcessing \/ ~mounted)

\* C28: one run of handleCapture returned early, the onCapture of the
\* other one threw, and the button is enabled.
ProcessingClearedAfterThrow ==
  /\ mounted
  /\ clicks = 2
  /\ nStarted = 1
  /\ readyState = 2
  /\ blobbed = {1}
  /\ ~isFrozen
  /\ retakes = 0
  /\ encoding = {}
  /\ ~isProcessing
  /\ ~ButtonDisabled

\* C30 (Spec), as the claim states it: hasPermission and errorMsg are never
\* both set.  The catch of the camera effect sets the message without
\* looking at `active`, and the state outlives the run of the effect: the
\* getUserMedia of one run can reject while the stream of another run plays.
PermissionExcludesError == ~(hasPermission /\ errorMsg # "none")

====
